---- MODULE Spec2Model ----
(***************************************************************************)
(* NerveClient (sdk/python/nerve_email/client.py): the MCP session         *)
(* lifecycle and the retry / error-mapping loop of _rpc, driven by         *)
(* several coroutines on one client instance.                              *)
(*                                                                         *)
(* One step of the model is what one coroutine runs between two awaits     *)
(* that suspend it: the round trip http.post, the backoff asyncio.sleep    *)
(* and a contended acquire of the asyncio.Lock.  The server is the         *)
(* environment: every answer is chosen freely from ServerAnswers.          *)
(***************************************************************************)
EXTENDS Integers, Sequences, FiniteSets, TLC

\* ------------------------------------------------------------------ bounds
NumCallers == 2
MaxRetriesBound == 1
MaxFaults == 2
MaxCloses == 2
LifecycleFaults == 1
RecoveryFaults == 3
MaxToolCalls == 2

Callers == 1..NumCallers
NoCaller == 0

\* ------------------------------------------------------------------ values
\* A session identifier is None (0), the empty string (EmptySid) or an
\* identifier issued by the server (a positive number).
None == 0
EmptySid == 0 - 1
Truthy(v) == v # None /\ v # EmptySid

NON_IDEMPOTENT_TOOLS == {"send_reply"}

RATE_LIMITED == 0 - 32042
QUOTA_EXCEEDED == 0 - 32040
SUBSCRIPTION_INACTIVE == 0 - 32041
SESSION_CODE == 0 - 32000
INTERNAL_ERROR == 0 - 32603
DefaultRetryAfter == 2
DefaultCode == 0
NoRA == 0 - 1

\* Messages are sequences of characters, so that lower() and the substring
\* test of line 173 are computed and not assumed.
MsgSessionExpired == <<"S","e","s","s","i","o","n"," ","e","x","p","i","r","e","d">>
MsgRateLimited == <<"R","a","t","e"," ","l","i","m","i","t","e","d">>
MsgMaxRetries == <<"M","a","x"," ","r","e","t","r","i","e","s">>
MsgNoSessionId == <<"n","o"," ","M","C","P","-","S","e","s","s","i","o","n","-","I","d">>
MsgAuth == <<"A","u","t","h">>
MsgForbidden == <<"F","o","r","b","i","d","d","e","n">>
MsgNone == <<>>
Needle == <<"s","e","s","s","i","o","n">>

UpperToLower ==
  [A |-> "a", B |-> "b", C |-> "c", D |-> "d", E |-> "e", F |-> "f", G |-> "g",
   H |-> "h", I |-> "i", J |-> "j", K |-> "k", L |-> "l", M |-> "m", N |-> "n",
   O |-> "o", P |-> "p", Q |-> "q", R |-> "r", S |-> "s", T |-> "t", U |-> "u",
   V |-> "v", W |-> "w", X |-> "x", Y |-> "y", Z |-> "z"]

\* Faulty variant: the message is compared as it is.
Lower_Identity(m) == m

\* str.lower() on the letters A-Z.
Lower(m) ==
  [i \in 1..Len(m) |-> IF m[i] \in DOMAIN UpperToLower THEN UpperToLower[m[i]] ELSE m[i]]

Contains(m, sub) ==
  \E i \in 1..(Len(m) - Len(sub) + 1) : SubSeq(m, i, i + Len(sub) - 1) = sub

\* ------------------------------------------------------------------ state
\* session_id, session_lock (its holder) with lock_waiters (its queue),
\* request_id and max_retries are the fields of the client; co[c] is the
\* coroutine of caller c: where it is suspended (pc), the API method it runs,
\* the locals of its _rpc frames (fr.call: the request of the API method,
\* fr.init: the initialize request of _ensure_session), who called
\* _ensure_session (from) and how it ended (raised: the exception that left
\* _rpc or _ensure_session, out: what the API method gave its caller).
\* http is the state of the field _http: "none" (None), "open" or "closed"
\* (is_closed); a frame is marked closed when the client it took from
\* _get_http has been closed since.
\* The other fields of co[c], assigned and faults are history; so are closes
\* (how each call of close() ended) and resp (the response that the
\* classification specification has handed to _rpc).
\* admin is the one coroutine that drives a NerveAdmin instance (admin.py);
\* tools is the registry NERVE_TOOLS with the calls of get_tool_definitions
\* made so far (tools.py).
VARIABLES session_id, session_lock, lock_waiters, request_id, max_retries, co,
          assigned, faults, http, closes, resp, admin, tools

vars ==
  <<session_id, session_lock, lock_waiters, request_id, max_retries, co,
    assigned, faults, http, closes, resp, admin, tools>>

\* The state of the NerveClient instance and of its callers.
clientVars ==
  <<session_id, session_lock, lock_waiters, request_id, max_retries, co,
    assigned, faults, http, closes, resp>>

NoValue == "None"
NoOutcome ==
  [kind |-> "none", code |-> 0, msg |-> MsgNone, retry_after |-> 0, value |-> NoValue]
Exc(kind, code, msg, ra) ==
  [kind |-> kind, code |-> code, msg |-> msg, retry_after |-> ra, value |-> NoValue]
Returned(v) == [kind |-> "return", code |-> 0, msg |-> MsgNone, retry_after |-> 0, value |-> v]

NoObs == [st |-> 0, cls |-> "none", ra |-> 0 - 1, hs |-> None]

NoFrame == [id |-> 0, hdr |-> None, attempt |-> 0, closed |-> FALSE]

IdleCo ==
  [pc |-> "idle", api |-> "none", tool |-> "none", cur |-> "none", from |-> "none",
   fr |-> [call |-> NoFrame, init |-> NoFrame], raised |-> NoOutcome,
   out |-> NoOutcome,
   sends |-> 0, inits |-> 0, hdr0 |-> None, got |-> <<>>, ilast |-> NoObs,
   ifault |-> 0, waits |-> <<>>, iwaits |-> <<>>, waited |-> FALSE]

\* NerveAdmin before its first operation (admin.py, __init__).
NewAdmin ==
  [pc |-> "idle", op |-> "none", sent |-> 0, http |-> "none", status |-> 0,
   body |-> "none", out |-> NoOutcome]

\* NERVE_TOOLS (tools.py): the tools in the order of the dict, with the
\* names of their properties and their required fields.
ToolNames ==
  <<"list_threads", "get_thread", "search_inbox", "triage_message",
    "extract_to_schema", "draft_reply_with_policy", "send_reply">>

PropertiesOf ==
  [list_threads |-> {"inbox_id", "status", "limit", "cursor"},
   get_thread |-> {"thread_id"},
   search_inbox |-> {"inbox_id", "query", "top_k", "cursor"},
   triage_message |-> {"message_id"},
   extract_to_schema |-> {"message_id", "schema_id"},
   draft_reply_with_policy |-> {"thread_id", "goal"},
   send_reply |-> {"thread_id", "body_or_draft_id", "needs_human_approval"}]

RequiredOf ==
  [list_threads |-> <<"inbox_id">>,
   get_thread |-> <<"thread_id">>,
   search_inbox |-> <<"inbox_id", "query">>,
   triage_message |-> <<"message_id">>,
   extract_to_schema |-> <<"message_id", "schema_id">>,
   draft_reply_with_policy |-> <<"thread_id", "goal">>,
   send_reply |-> <<"thread_id", "body_or_draft_id">>]

\* A name is a sequence of pieces, so that f"{prefix}{tool.name}" is a
\* concatenation.
ToolDefinition(n) ==
  [name |-> <<n>>, description |-> n,
   parameters |-> [type |-> "object", properties |-> PropertiesOf[n]],
   required |-> RequiredOf[n]]

NERVE_TOOLS == [i \in 1..Len(ToolNames) |-> ToolDefinition(ToolNames[i])]

NewTools == [registry |-> NERVE_TOOLS, log |-> <<>>]

\* ------------------------------------------------------------------ server
\* An answer of the transport: a network failure, or an HTTP response with a
\* status, an optional MCP-Session-Id header (None: no header) and a JSON
\* body: err is "absent" (no error key), "empty" (a falsy error value) or
\* "obj" (an error object with code, message and optional retry-after).
NetErr ==
  [kind |-> "neterr", status |-> 0, hsid |-> None, err |-> "absent", code |-> 0,
   msg |-> MsgNone, ra |-> NoRA, result |-> NoValue]
Http(status, hsid, err, code, msg, ra, result) ==
  [kind |-> "http", status |-> status, hsid |-> hsid, err |-> err, code |-> code,
   msg |-> msg, ra |-> ra, result |-> result]
NoResponse ==
  [kind |-> "none", status |-> 0, hsid |-> None, err |-> "absent", code |-> 0,
   msg |-> MsgNone, ra |-> NoRA, result |-> NoValue]
Ok(hsid, err, result) == Http(200, hsid, err, 0, MsgNone, NoRA, result)
Err(status, hsid, code, msg, ra) == Http(status, hsid, "obj", code, msg, ra, NoValue)

\* The header of an answer carries no identifier, an empty one, or a fresh
\* one (Fresh stands for the identifier the server issues for this request).
Fresh == 1
RetryAfters == {NoRA, 5}

ErrorBodies(hs) ==
  {Err(200, h, RATE_LIMITED, MsgRateLimited, ra) : h \in hs, ra \in RetryAfters}
    \cup {Err(200, h, QUOTA_EXCEEDED, MsgNone, NoRA) : h \in hs}
    \cup {Err(200, h, SUBSCRIPTION_INACTIVE, MsgNone, NoRA) : h \in hs}
    \cup {Err(200, h, SESSION_CODE, MsgSessionExpired, NoRA) : h \in hs}
    \cup {Err(200, h, INTERNAL_ERROR, MsgNone, NoRA) : h \in hs}

AuthAnswers ==
  {Ok(None, "absent", "r"), Err(200, None, RATE_LIMITED, MsgRateLimited, 5)}

ServerAnswers(method) ==
  {NetErr}
    \cup {[a EXCEPT !.status = st] : a \in AuthAnswers, st \in {401, 403}}
    \cup (IF method = "initialize"
          THEN {Ok(h, "absent", NoValue) : h \in {None, EmptySid, Fresh}}
                 \cup ErrorBodies({None, Fresh})
          ELSE {Ok(None, "absent", r) : r \in {NoValue, "r"}}
                 \cup {Ok(None, "empty", "r")}
                 \cup ErrorBodies({None}))

\* An answer other than a plain success (for initialize: a success that
\* issues an identifier) uses up one unit of the server's fault budget.
IsFault(method, a) ==
  \/ a.kind = "neterr"
  \/ a.status # 200
  \/ a.err = "obj"
  \/ method = "initialize" /\ a.hsid # Fresh

\* What the error dispatch of _rpc makes of a body (lines 156-182).
BodyClass(a) ==
  IF a.err # "obj" THEN "ok"
  ELSE IF a.code = RATE_LIMITED THEN "rate"
  ELSE IF a.code = QUOTA_EXCEEDED THEN "quota"
  ELSE IF a.code = SUBSCRIPTION_INACTIVE THEN "subs"
  ELSE IF a.code = SESSION_CODE /\ Contains(Lower(a.msg), Needle) THEN "expired"
  ELSE "generic"

\* Faulty variant: the retry-after value of the server is ignored.
RetryAfterOf_IgnoresServer(a) == DefaultRetryAfter

\* err_data.get("retry_after_seconds", 2) of line 163.
RetryAfterOf(a) == IF a.ra = NoRA THEN DefaultRetryAfter ELSE a.ra

\* What is remembered of an answer (history, read by the properties only).
Obs(a) ==
  [st |-> IF a.kind = "neterr" THEN 0 ELSE a.status,
   cls |-> IF a.kind = "neterr" THEN "neterr" ELSE BodyClass(a),
   ra |-> a.ra,
   hs |-> a.hsid]

\* ------------------------------------------------------------------ client
St ==
  [sid |-> session_id, lock |-> session_lock, waiters |-> lock_waiters,
   rid |-> request_id, co |-> co, assigned |-> assigned,
   http |-> http, closes |-> closes, resp |-> resp]

Install(t) ==
  /\ session_id' = t.sid
  /\ session_lock' = t.lock
  /\ lock_waiters' = t.waiters
  /\ request_id' = t.rid
  /\ co' = t.co
  /\ assigned' = t.assigned
  /\ http' = t.http
  /\ closes' = t.closes
  /\ resp' = t.resp
  /\ UNCHANGED <<max_retries, admin, tools>>

ApiMethod(api) ==
  IF api = "list_tools" THEN "tools/list"
  ELSE IF api = "list_inboxes" THEN "resources/read"
  ELSE "tools/call"

Method(r, f) == IF f = "init" THEN "initialize" ELSE ApiMethod(r.api)

\* Faulty variant: every tool may be retried.
AllowRetry_Always(r, f) == TRUE

\* allow_retry of the _rpc call of frame f (lines 107, 193, 223, 320).
AllowRetry(r, f) ==
  IF f = "call" /\ ApiMethod(r.api) = "tools/call"
  THEN r.tool \notin NON_IDEMPOTENT_TOOLS
  ELSE TRUE

\* Faulty variant: the attempt limit ignores allow_retry.
MaxAttempts_IgnoresAllowRetry(allow_retry) == max_retries + 1

\* Faulty variant: one attempt too many.
MaxAttempts_OffByOne(allow_retry) == IF allow_retry THEN max_retries + 2 ELSE 1

MaxAttempts(allow_retry) == IF allow_retry THEN max_retries + 1 ELSE 1

\* async with self._session_lock: __aexit__ releases the lock.
Release(s, c) == [s EXCEPT !.lock = NoCaller]

\* Faulty variant: health_check lets the exception through.
ApiRaise_Propagates(s, c, exc) ==
  [s EXCEPT !.co[c].pc = "done", !.co[c].cur = "none", !.co[c].raised = exc,
            !.co[c].out = exc]

\* The API method ends: health_check turns every exception into False.
ApiRaise(s, c, exc) ==
  [s EXCEPT !.co[c].pc = "done", !.co[c].cur = "none", !.co[c].raised = exc,
            !.co[c].out = IF s.co[c].api = "health_check" THEN Returned("False") ELSE exc]

ApiReturn(s, c, result) ==
  [s EXCEPT !.co[c].pc = "done", !.co[c].cur = "none",
            !.co[c].out =
               IF s.co[c].api = "list_tools"
               THEN IF result = NoValue
                    THEN Exc("AttributeError", 0, MsgNone, 0)
                    ELSE Returned("tools")
               ELSE Returned(result)]

\* Faulty variant: the lock stays held when the initialize fails.
Raise_KeepsLock(s, c, f, exc) == ApiRaise(s, c, exc)

\* An exception leaves _rpc of frame f; out of the initialize frame it
\* passes through the async-with of _ensure_session, which releases the lock.
Raise(s, c, f, exc) ==
  ApiRaise(IF f = "init" THEN Release(s, c) ELSE s, c, exc)

\* await http.post(...): the request is handed to the transport; a client
\* that has been closed refuses to send (httpx raises RuntimeError).
Post(s, c, f) ==
  IF s.co[c].fr[f].closed
  THEN Raise(s, c, f, Exc("RuntimeError", DefaultCode, MsgNone, 0))
  ELSE IF f = "call"
  THEN [s EXCEPT !.co[c].pc = "http", !.co[c].cur = f,
                 !.co[c].sends = @ + 1,
                 !.co[c].hdr0 = IF s.co[c].sends = 0 THEN s.co[c].fr[f].hdr ELSE @]
  ELSE [s EXCEPT !.co[c].pc = "http", !.co[c].cur = f,
                 !.co[c].inits = @ + 1]

\* Faulty variant: the loop does not count its iterations.
Continue_NoLimit(s, c, f) ==
  Post([s EXCEPT !.co[c].fr[f].attempt = @ + 1], c, f)

\* Faulty variant: the end of the loop falls out of _rpc, which returns None.
Continue_FallsThrough(s, c, f) ==
  LET k == s.co[c].fr[f].attempt + 1
      s1 == [s EXCEPT !.co[c].fr[f].attempt = k]
  IN IF k < MaxAttempts(AllowRetry(s.co[c], f))
     THEN Post(s1, c, f)
     ELSE ApiReturn(s1, c, NoValue)

\* The next iteration of "for attempt in range(max_attempts)", or the raise
\* after the loop.
Continue(s, c, f) ==
  LET k == s.co[c].fr[f].attempt + 1
      s1 == [s EXCEPT !.co[c].fr[f].attempt = k]
  IN IF k < MaxAttempts(AllowRetry(s.co[c], f))
     THEN Post(s1, c, f)
     ELSE Raise(s1, c, f, Exc("NerveError", DefaultCode, MsgMaxRetries, 0))

\* Faulty variant: the counter is not advanced past 2.
NextId_Stuck(s) == IF s.rid >= 2 THEN s.rid ELSE s.rid + 1

\* _next_id: the counter after the increment.
NextId(s) == s.rid + 1

\* _get_http: a client is created when there is none or it is closed.
GetHttp(s) ==
  IF s.http \in {"none", "closed"} THEN [s EXCEPT !.http = "open"] ELSE s

\* _rpc up to its first await: take the client (_get_http), frame the body
\* (_next_id), take the headers.
RpcStart(s, c, f) ==
  Post([GetHttp(s) EXCEPT !.rid = NextId(s),
                          !.assigned = Append(@, NextId(s)),
                          !.co[c].fr[f] = [id |-> NextId(s),
                                           hdr |-> IF Truthy(s.sid) THEN s.sid ELSE None,
                                           attempt |-> 0, closed |-> FALSE]],
       c, f)

\* _ensure_session returns to its caller: the API method (from = "pre") or
\* the session-expired branch of _rpc of frame from.
EnsureReturn(s, c) ==
  LET from == s.co[c].from
  IN IF from = "pre"
     THEN IF s.co[c].api = "health_check"
          THEN [s EXCEPT !.co[c].pc = "done", !.co[c].cur = "none",
                         !.co[c].out = Returned("True")]
          ELSE RpcStart(s, c, "call")
     ELSE Continue([s EXCEPT !.co[c].fr[from].hdr = s.sid], c, from)

\* Faulty variant: no second check of the session inside the lock.
LockedBody_NoRecheck(s, c) == RpcStart(s, c, "init")

\* _ensure_session inside the lock (lines 104-115, up to the await).
LockedBody(s, c) ==
  IF Truthy(s.sid)
  THEN EnsureReturn(Release(s, c), c)
  ELSE RpcStart(s, c, "init")

\* Faulty variant: the lock is taken without regard to its holder.
EnsureSession_NoLock(s, c, from) ==
  LET s1 == [s EXCEPT !.co[c].from = from]
  IN IF Truthy(s.sid)
     THEN EnsureReturn(s1, c)
     ELSE LockedBody([s1 EXCEPT !.lock = c], c)

\* Faulty variant: _ensure_session returns without establishing a session.
EnsureSession_Skips(s, c, from) == EnsureReturn([s EXCEPT !.co[c].from = from], c)

\* _ensure_session from its first line: asyncio.Lock.acquire returns at once
\* when the lock is free and nobody waits, and queues the caller otherwise.
EnsureSession(s, c, from) ==
  LET s1 == [s EXCEPT !.co[c].from = from]
  IN IF Truthy(s.sid)
     THEN EnsureReturn(s1, c)
     ELSE IF s.lock = NoCaller /\ s.waiters = <<>>
          THEN LockedBody([s1 EXCEPT !.lock = c], c)
          ELSE [s1 EXCEPT !.waiters = Append(@, c), !.co[c].pc = "wait_lock",
                          !.co[c].cur = "none", !.co[c].waited = TRUE]

\* Faulty variant: _ensure_session does not look at the session after the
\* initialize.
RpcReturn_NoIdCheck(s, c, f, result) ==
  IF f = "init"
  THEN EnsureReturn(Release(s, c), c)
  ELSE ApiReturn(s, c, result)

\* _rpc returns data.get("result"): to _ensure_session (line 114) or to the
\* API method.
RpcReturn(s, c, f, result) ==
  IF f = "init"
  THEN IF ~Truthy(s.sid)
       THEN Raise(s, c, f, Exc("NerveSessionError", DefaultCode, MsgNoSessionId, 0))
       ELSE EnsureReturn(Release(s, c), c)
  ELSE ApiReturn(s, c, result)

\* The value of the MCP-Session-Id header of an answer to request id: the
\* server names each session it opens after the request that opened it.
Issued(hsid, id) == IF hsid = Fresh THEN id ELSE hsid

\* await asyncio.sleep(retry_after).
Sleep(s, c, f, retry_after) ==
  IF f = "call"
  THEN [s EXCEPT !.co[c].pc = "sleep", !.co[c].waits = Append(@, retry_after)]
  ELSE [s EXCEPT !.co[c].pc = "sleep", !.co[c].iwaits = Append(@, retry_after)]

IsUnauthorized(a) == a.status = 401
\* Faulty variant: status 403 is not checked.
IsForbidden_Never(a) == FALSE

IsForbidden(a) == a.status = 403

\* code == -32042: sleep and retry while attempts are left, else raise.
OnRateLimited(s, c, f, a) ==
  LET allow == AllowRetry(s.co[c], f)
      retry_after == RetryAfterOf(a)
  IN IF allow /\ s.co[c].fr[f].attempt < MaxAttempts(allow) - 1
     THEN Sleep(s, c, f, retry_after)
     ELSE Raise(s, c, f, Exc("NerveRateLimitError", RATE_LIMITED, a.msg, retry_after))

\* Faulty variant: quota-exceeded is handled like rate-limited.
OnQuotaExceeded_Retries(s, c, f, a) ==
  LET allow == AllowRetry(s.co[c], f)
  IN IF allow /\ s.co[c].fr[f].attempt < MaxAttempts(allow) - 1
     THEN Sleep(s, c, f, DefaultRetryAfter)
     ELSE Raise(s, c, f, Exc("NerveQuotaError", QUOTA_EXCEEDED, a.msg, 0))

OnQuotaExceeded(s, c, f, a) ==
  Raise(s, c, f, Exc("NerveQuotaError", QUOTA_EXCEEDED, a.msg, 0))

OnSubscriptionInactive(s, c, f, a) ==
  Raise(s, c, f, Exc("NerveSubscriptionError", SUBSCRIPTION_INACTIVE, a.msg, 0))

\* Session expired: forget the session, _ensure_session, then (EnsureReturn)
\* take the new header and continue.
OnSessionExpired(s, c, f, a) ==
  EnsureSession([s EXCEPT !.sid = None], c, f)

\* Faulty variant: an unknown error code is taken as a success.
OnOtherError_Swallows(s, c, f, a) == RpcReturn(s, c, f, a.result)

\* else: raise NerveError(msg, code=code).
OnOtherError(s, c, f, a) ==
  Raise(s, c, f, Exc("NerveError", a.code, a.msg, 0))

\* The body of the loop of _rpc after the await of line 143.
Handle(s, c, f, a) ==
  IF a.kind = "neterr"
  THEN Raise(s, c, f, Exc("TransportError", DefaultCode, MsgNone, 0))
  ELSE IF IsUnauthorized(a)
  THEN Raise(s, c, f, Exc("NerveAuthError", DefaultCode, MsgAuth, 0))
  ELSE IF IsForbidden(a)
  THEN Raise(s, c, f, Exc("NerveAuthError", DefaultCode, MsgForbidden, 0))
  ELSE
    LET s2 == IF Method(s.co[c], f) = "initialize" /\ a.hsid # None
              THEN [s EXCEPT !.sid = Issued(a.hsid, s.co[c].fr[f].id)]
              ELSE s
    IN IF a.err = "obj"
       THEN IF a.code = RATE_LIMITED THEN OnRateLimited(s2, c, f, a)
            ELSE IF a.code = QUOTA_EXCEEDED THEN OnQuotaExceeded(s2, c, f, a)
            ELSE IF a.code = SUBSCRIPTION_INACTIVE THEN OnSubscriptionInactive(s2, c, f, a)
            ELSE IF a.code = SESSION_CODE /\ Contains(Lower(a.msg), Needle)
            THEN OnSessionExpired(s2, c, f, a)
            ELSE OnOtherError(s2, c, f, a)
       ELSE RpcReturn(s2, c, f, a.result)

\* History: what caller c was answered.
Remember(s, c, f, a) ==
  IF f = "call"
  THEN [s EXCEPT !.co[c].got = Append(@, Obs(a))]
  ELSE [s EXCEPT !.co[c].ilast = Obs(a),
                 !.co[c].ifault = IF IsFault("initialize", a) THEN @ + 1 ELSE @]

\* ------------------------------------------------------------------ actions
Invocations ==
  {<<"list_threads", "list_threads">>, <<"send_reply", "send_reply">>,
   <<"execute_tool", "send_reply">>, <<"health_check", "none">>,
   <<"list_tools", "none">>, <<"list_inboxes", "none">>}

\* A coroutine calls an API method; every one of them starts with
\* await self._ensure_session().
Invoke(c) ==
  /\ co[c].pc = "idle"
  /\ \E inv \in Invocations :
       /\ Install(EnsureSession([St EXCEPT !.co[c].api = inv[1],
                                            !.co[c].tool = inv[2]], c, "pre"))
       /\ UNCHANGED faults

\* The round trip of line 143 completes with some answer of the server.
Receive(c) ==
  /\ co[c].pc = "http"
  /\ \E a \in ServerAnswers(Method(co[c], co[c].cur)) :
       LET fault == IsFault(Method(co[c], co[c].cur), a)
       IN /\ fault => faults < MaxFaults
          /\ faults' = IF fault THEN faults + 1 ELSE faults
          /\ Install(Handle(Remember(St, c, co[c].cur, a), c, co[c].cur, a))

\* asyncio.sleep(retry_after) of line 166 is over: continue.
Wake(c) ==
  /\ co[c].pc = "sleep"
  /\ Install(Continue(St, c, co[c].cur))
  /\ UNCHANGED faults

\* The first waiter of the free lock is resumed and holds it.
Acquire(c) ==
  /\ co[c].pc = "wait_lock"
  /\ session_lock = NoCaller
  /\ lock_waiters # <<>>
  /\ Head(lock_waiters) = c
  /\ Install(LockedBody([St EXCEPT !.lock = c, !.waiters = Tail(@)], c))
  /\ UNCHANGED faults

Init ==
  /\ session_id = None
  /\ session_lock = NoCaller
  /\ lock_waiters = <<>>
  /\ request_id = 0
  /\ max_retries \in 0..MaxRetriesBound
  /\ co = [c \in Callers |-> IdleCo]
  /\ assigned = <<>>
  /\ faults = 0
  /\ http = "none"
  /\ closes = <<>>
  /\ resp = NoResponse
  /\ admin = NewAdmin
  /\ tools = NewTools

Next ==
  \/ \E c \in Callers : Invoke(c)
  \/ \E c \in Callers : Receive(c)
  \/ \E c \in Callers : Wake(c)
  \/ \E c \in Callers : Acquire(c)

Spec == Init /\ [][Next]_vars

\* A new client with one retry, whose server gives up to RecoveryFaults
\* non-success answers: enough for an expiry, and a recovery whose
\* initialize is rate-limited and then answered without an identifier.
InitRecovery ==
  /\ session_id = None
  /\ session_lock = NoCaller
  /\ lock_waiters = <<>>
  /\ request_id = 0
  /\ max_retries = MaxRetriesBound
  /\ co = [c \in Callers |-> IdleCo]
  /\ assigned = <<>>
  /\ faults = MaxFaults - RecoveryFaults
  /\ http = "none"
  /\ closes = <<>>
  /\ resp = NoResponse
  /\ admin = NewAdmin
  /\ tools = NewTools

SpecRecovery == InitRecovery /\ [][Next]_vars

\* The event loop: a round trip that is awaited returns (with an answer or a
\* transport failure), a sleep that is awaited ends, and the first waiter of
\* a released asyncio.Lock is resumed.
Fairness ==
  \A c \in Callers :
    /\ WF_vars(Receive(c))
    /\ WF_vars(Wake(c))
    /\ WF_vars(Acquire(c))

SpecFair == Init /\ [][Next]_vars /\ Fairness

\* ------------------------------------------------------------------ close
\* The _rpc frames of a coroutine that are on its stack: the one it is
\* suspended in and, inside a recovery, the one that called _ensure_session.
LiveFrames(r) ==
  IF r.pc \in {"idle", "done"}
  THEN {}
  ELSE ({r.cur} \cup {r.from}) \cap {"call", "init"}

MarkClosed(r) ==
  [r EXCEPT !.fr = [f \in {"call", "init"} |->
                      IF f \in LiveFrames(r)
                      THEN [r.fr[f] EXCEPT !.closed = TRUE]
                      ELSE r.fr[f]]]

\* Faulty variant: aclose() is called without looking at _http.
CloseClient_NoGuard(s) ==
  IF s.http = "none"
  THEN [s EXCEPT !.closes = Append(@, "AttributeError")]
  ELSE [s EXCEPT !.http = "closed",
                 !.co = [c \in Callers |-> MarkClosed(s.co[c])],
                 !.closes = Append(@, "returned")]

\* close(): the client is closed if there is one and it is open.
CloseClient(s) ==
  IF s.http = "open"
  THEN [s EXCEPT !.http = "closed",
                 !.co = [c \in Callers |-> MarkClosed(s.co[c])],
                 !.closes = Append(@, "returned")]
  ELSE [s EXCEPT !.closes = Append(@, "returned")]

\* The owner of the client calls close(), directly or by leaving the
\* "async with" block (__aexit__).
Close ==
  /\ Len(closes) < MaxCloses
  /\ Install(CloseClient(St))
  /\ UNCHANGED faults

NextLifecycle ==
  \/ Next
  \/ Close

\* A new client, with LifecycleFaults non-success answers to come.
InitLifecycle ==
  /\ session_id = None
  /\ session_lock = NoCaller
  /\ lock_waiters = <<>>
  /\ request_id = 0
  /\ max_retries \in 0..MaxRetriesBound
  /\ co = [c \in Callers |-> IdleCo]
  /\ assigned = <<>>
  /\ faults = MaxFaults - LifecycleFaults
  /\ http = "none"
  /\ closes = <<>>
  /\ resp = NoResponse
  /\ admin = NewAdmin
  /\ tools = NewTools

SpecLifecycle == InitLifecycle /\ [][NextLifecycle]_vars

\* --------------------------------------------------------- classification
\* The error dispatch of _rpc (lines 156-180) as a function of the response:
\* one caller is suspended in http.post, on its initialize or on the request
\* of its API method, and is handed one response with an error object.
MsgLowerSession == <<"s","e","s","s","i","o","n"," ","g","o","n","e">>
MsgUpperSession == <<"N","O"," ","S","E","S","S","I","O","N">>
MsgMixedSession == <<"b","a","d"," ","s","E","s","S","i","O","n","s">>
MsgSessio == <<"s","e","s","s","i","o"," ","n">>
MsgUnknown == <<"u","n","k","n","o","w","n"," ","e","r","r","o","r">>

ErrorMessages ==
  {MsgSessionExpired, MsgLowerSession, MsgUpperSession, MsgMixedSession,
   MsgSessio, MsgUnknown, MsgRateLimited, MsgNone}

ErrorCodes ==
  {RATE_LIMITED, QUOTA_EXCEEDED, SUBSCRIPTION_INACTIVE, SESSION_CODE,
   INTERNAL_ERROR, DefaultCode, SESSION_CODE - 1}

ErrorResponses ==
  {Err(st, h, code, msg, ra) :
     st \in {200, 500}, h \in {None, Fresh}, code \in ErrorCodes,
     msg \in ErrorMessages, ra \in RetryAfters}

NewClient ==
  [sid |-> None, lock |-> NoCaller, waiters |-> <<>>, rid |-> 0,
   co |-> [c \in Callers |-> IdleCo], assigned |-> <<>>,
   http |-> "none", closes |-> <<>>, resp |-> NoResponse]

\* Caller 1 has called the API method inv on a new client: its initialize
\* is in flight.
Establishing(inv) ==
  EnsureSession([NewClient EXCEPT !.co[1].api = inv[1], !.co[1].tool = inv[2]],
                1, "pre")

\* The initialize was answered with a session identifier: the request of
\* the API method is in flight (health_check has returned).
Established(inv) ==
  LET a == Ok(Fresh, "absent", NoValue)
  IN Handle(Remember(Establishing(inv), 1, "init", a), 1, "init", a)

InitClassify ==
  \E inv \in Invocations, stage \in {"init", "call"} :
    LET s == IF stage = "init" THEN Establishing(inv) ELSE Established(inv)
    IN /\ s.co[1].pc = "http"
       /\ session_id = s.sid
       /\ session_lock = s.lock
       /\ lock_waiters = s.waiters
       /\ request_id = s.rid
       /\ max_retries \in 0..MaxRetriesBound
       /\ co = s.co
       /\ assigned = s.assigned
       /\ faults = 0
       /\ http = s.http
       /\ closes = s.closes
       /\ resp = s.resp
       /\ admin = NewAdmin
       /\ tools = NewTools

\* The round trip completes with a response that carries an error object.
Classify(c) ==
  /\ co[c].pc = "http"
  /\ resp = NoResponse
  /\ \E a \in ErrorResponses :
       Install([Handle(Remember(St, c, co[c].cur, a), c, co[c].cur, a)
                  EXCEPT !.resp = a])
  /\ UNCHANGED faults

NextClassify == \E c \in Callers : Classify(c)

SpecClassify == InitClassify /\ [][NextClassify]_vars

\* ------------------------------------------------------------------ admin
\* NerveAdmin (admin.py): every operation is one call of _request.
AdminOps ==
  {"create_org", "add_domain", "list_domains", "verify_domain",
   "get_dns_records", "delete_domain", "create_inbox", "issue_cloud_api_key",
   "issue_service_token"}

\* delete_domain awaits _request and returns nothing (lines 110-113); the
\* other operations return what _request returns.
ReturnsBody(op) == op # "delete_domain"

AdminStatuses == {200, 201, 204, 302, 400, 401, 403, 404, 429, 500, 503}

\* The text of a response body and what resp.json() makes of it.
AdminBodies == {"{\"id\": 1}", "[]", "null", "Bad Gateway", ""}
JsonOf(text) ==
  CASE text = "{\"id\": 1}" -> "dict"
    [] text = "[]" -> "list"
    [] text = "null" -> NoValue
    [] OTHER -> "invalid"

AdminAnswers ==
  {[kind |-> "neterr", status |-> 0, body |-> "none"]}
    \cup {[kind |-> "http", status |-> st, body |-> b] :
            st \in AdminStatuses, b \in AdminBodies}

\* Faulty variant: only the statuses 400-499 are errors.
AdminIsError_Only4xx(status) == status >= 400 /\ status < 500

\* resp.status_code >= 400.
AdminIsError(status) == status >= 400

\* _request after the await of line 63.
AdminRequestOutcome(a) ==
  IF a.kind = "neterr" THEN Exc("TransportError", DefaultCode, MsgNone, 0)
  ELSE IF a.status = 401 THEN Exc("NerveAuthError", DefaultCode, MsgAuth, 0)
  ELSE IF a.status = 403 THEN Exc("NerveAuthError", DefaultCode, MsgForbidden, 0)
  ELSE IF AdminIsError(a.status) THEN Exc("NerveError", a.status, <<a.body>>, 0)
  ELSE IF JsonOf(a.body) = "invalid" THEN Exc("JSONDecodeError", DefaultCode, MsgNone, 0)
  ELSE Returned(JsonOf(a.body))

\* What the operation gives its caller.
AdminOutcome(op, a) ==
  LET r == AdminRequestOutcome(a)
  IN IF r.kind = "return" /\ ~ReturnsBody(op) THEN Returned(NoValue) ELSE r

\* An operation is called: _get_http, then http.request is awaited.
AdminInvoke ==
  /\ admin.pc = "idle"
  /\ \E op \in AdminOps :
       admin' = [admin EXCEPT !.pc = "http", !.op = op, !.sent = @ + 1,
                              !.http = "open"]
  /\ UNCHANGED <<clientVars, tools>>

\* The round trip of line 63 completes.
AdminReceive ==
  /\ admin.pc = "http"
  /\ \E a \in AdminAnswers :
       admin' = [admin EXCEPT !.pc = "done", !.status = a.status,
                              !.body = a.body, !.out = AdminOutcome(admin.op, a)]
  /\ UNCHANGED <<clientVars, tools>>

NextAdmin ==
  \/ AdminInvoke
  \/ AdminReceive

SpecAdmin == Init /\ [][NextAdmin]_vars

\* ------------------------------------------------------------------ tools
\* d[k] = v on a dict.
SetItem(d, k, v) ==
  [x \in DOMAIN d \cup {k} |-> IF x = k THEN v ELSE d[x]]

WithRequired(tool) ==
  IF tool.required # <<>>
  THEN SetItem(tool.parameters, "required", tool.required)
  ELSE tool.parameters

\* Faulty variant: the schema is the parameters dict of the tool itself.
SchemaOf_Alias(tool) ==
  [schema |-> WithRequired(tool),
   tool |-> [tool EXCEPT !.parameters = WithRequired(tool)]]

\* schema = dict(tool.parameters); schema["required"] = tool.required: the
\* item is set in a copy, the tool is left as it was.
SchemaOf(tool) ==
  [schema |-> WithRequired(tool), tool |-> tool]

ToClaudeFormat(tool, prefix) ==
  LET r == SchemaOf(tool)
  IN [entry |-> [name |-> prefix \o tool.name, description |-> tool.description,
                 input_schema |-> r.schema],
      tool |-> r.tool]

ToOpenaiFormat(tool, prefix) ==
  LET r == SchemaOf(tool)
  IN [entry |-> [type |-> "function",
                 function |-> [name |-> prefix \o tool.name,
                               description |-> tool.description,
                               parameters |-> r.schema]],
      tool |-> r.tool]

ToRawFormat(tool, prefix) ==
  LET r == SchemaOf(tool)
  IN [entry |-> [name |-> prefix \o tool.name, description |-> tool.description,
                 parameters |-> r.schema],
      tool |-> r.tool]

FORMAT_ADAPTERS ==
  [claude |-> "claude", anthropic |-> "claude", openai |-> "openai", raw |-> "raw"]

Adapt(adapter, tool, prefix) ==
  CASE adapter = "claude" -> ToClaudeFormat(tool, prefix)
    [] adapter = "openai" -> ToOpenaiFormat(tool, prefix)
    [] OTHER -> ToRawFormat(tool, prefix)

\* get_tool_definitions on the registry reg: the outcome and the registry
\* after the call.
GetToolDefinitions(reg, format, prefix) ==
  IF format \notin DOMAIN FORMAT_ADAPTERS
  THEN [out |-> [kind |-> "ValueError", value |-> <<>>], registry |-> reg]
  ELSE LET rs == [i \in 1..Len(reg) |->
                    Adapt(FORMAT_ADAPTERS[format], reg[i], prefix)]
       IN [out |-> [kind |-> "return",
                    value |-> [i \in 1..Len(reg) |-> rs[i].entry]],
           registry |-> [i \in 1..Len(reg) |-> rs[i].tool]]

Formats == {"claude", "anthropic", "openai", "raw", "langchain", "Claude", ""}
Prefixes == {<<>>, <<"email_">>, <<"nerve", "_">>}

CallGetToolDefinitions ==
  /\ Len(tools.log) < MaxToolCalls
  /\ \E format \in Formats, prefix \in Prefixes :
       LET r == GetToolDefinitions(tools.registry, format, prefix)
       IN tools' = [registry |-> r.registry,
                    log |-> Append(tools.log, [format |-> format, prefix |-> prefix,
                                               out |-> r.out])]
  /\ UNCHANGED <<clientVars, admin>>

NextTools == CallGetToolDefinitions

SpecTools == Init /\ [][NextTools]_vars

\* ------------------------------------------------------------------ properties
RECURSIVE SumOver(_, _)
SumOver(F(_), S) ==
  IF S = {} THEN 0
  ELSE LET x == CHOOSE y \in S : TRUE IN F(x) + SumOver(F, S \ {x})

InitsOf(c) == co[c].inits
TotalInits == SumOver(InitsOf, Callers)

IsToolCall(c) == co[c].api \in {"list_threads", "send_reply", "execute_tool"}
Answered(c, i, cls) == co[c].got[i].st = 200 /\ co[c].got[i].cls = cls
NeverExpired(c) == \A i \in 1..Len(co[c].got) : co[c].got[i].cls # "expired"
EffectiveRetryAfter(o) == IF o.ra = NoRA THEN 2 ELSE o.ra

\* C1: while every initialize answer is a success that issues a session
\* identifier and no session expires, the callers of one client send at most
\* one initialize request between them, and every request of an API method
\* that was handed to the transport carries the identifier that this one
\* initialize round trip issued.
C1_SingleEstablishment ==
  ((\A c \in Callers : co[c].ifault = 0 /\ NeverExpired(c))
     => /\ TotalInits <= 1
        /\ \A c \in Callers :
             co[c].sends > 0
               => /\ TotalInits = 1
                  /\ Truthy(session_id)
                  /\ co[c].fr.call.hdr = session_id
                  /\ \E d \in Callers :
                       co[d].inits = 1 /\ session_id = co[d].fr.init.id)

\* Two tool invocations were in flight together with no session cached: one
\* of them queued on the lock, both have sent their tools/call and are done.
C1_Witness ==
  /\ \A c \in Callers :
       IsToolCall(c) /\ co[c].pc = "done" /\ co[c].out.kind = "return"
         /\ co[c].ifault = 0 /\ NeverExpired(c)
  /\ \E c \in Callers : co[c].waited /\ co[c].inits = 0
  /\ TotalInits = 1

\* C2: one invocation of send_reply, through send_reply() or through
\* execute_tool, hands at most one tools/call request to the transport,
\* whatever the server answers.
C2_SendReplyAtMostOnce ==
  \A c \in Callers : co[c].tool = "send_reply" => co[c].sends <= 1

\* send_reply through execute_tool was answered session-expired, the session
\* was established again, and the invocation is over after its one request.
C2_Witness ==
  \E c \in Callers :
    /\ co[c].api = "execute_tool" /\ co[c].tool = "send_reply"
    /\ co[c].pc = "done" /\ co[c].sends = 1
    /\ Answered(c, 1, "expired")
    /\ co[c].inits = 2 /\ Truthy(session_id)

\* C3 (as claimed): a tool invocation whose first tools/call is answered
\* session-expired, whose re-establishment succeeds and which is given no
\* other failing answer returns a result: it does not raise.
C3_RecoveryReplaySucceeds ==
  \A c \in Callers :
    (/\ IsToolCall(c) /\ co[c].pc = "done"
     /\ Len(co[c].got) >= 1 /\ Answered(c, 1, "expired")
     /\ co[c].ifault = 0
     /\ \A i \in 2..Len(co[c].got) : Answered(c, i, "ok"))
      => co[c].out.kind = "return"

\* C4 (as claimed): two invocations whose requests were sent under the same
\* session and that are each answered session-expired once cause one
\* initialize round trip between them (two with the first establishment).
C4_OneReestablishmentPerFlood ==
  \A c, d \in Callers :
    (/\ c # d
     /\ co[c].sends > 0 /\ co[d].sends > 0 /\ co[c].hdr0 = co[d].hdr0
     /\ Len(co[c].got) >= 1 /\ Answered(c, 1, "expired")
     /\ Len(co[d].got) >= 1 /\ Answered(d, 1, "expired")
     /\ \A e \in Callers : co[e].ifault = 0)
      => TotalInits <= 2

AllRateLimited(c) ==
  /\ Len(co[c].got) >= 1
  /\ \A i \in 1..Len(co[c].got) : Answered(c, i, "rate")

\* C5: an invocation of an idempotent operation that is over and whose every
\* attempt was answered rate-limited has sent max_retries + 1 requests and
\* raised NerveRateLimitError with the retry-after of the last answer.
C5_RateLimitRetryBound ==
  \A c \in Callers :
    (co[c].pc = "done" /\ AllowRetry(co[c], "call") /\ AllRateLimited(c))
      => /\ co[c].sends = max_retries + 1
         /\ co[c].out.kind = "NerveRateLimitError"
         /\ co[c].out.retry_after = EffectiveRetryAfter(co[c].got[Len(co[c].got)])

\* An idempotent invocation used a retry and ended rate-limited, and the last
\* answer's retry-after differs from the first one's.
C5_Witness ==
  \E c \in Callers :
    /\ co[c].pc = "done" /\ AllowRetry(co[c], "call") /\ AllRateLimited(c)
    /\ max_retries = 1 /\ Len(co[c].got) = 2
    /\ co[c].got[1].ra = NoRA /\ co[c].got[2].ra = 5
    /\ co[c].out.retry_after = 5

\* C6: send_reply answered rate-limited is over at once: it raised
\* NerveRateLimitError with the answer's retry-after (2 when it gives none),
\* after one request and without sleeping on that answer.
C6_SendReplyRateLimitedOnce ==
  \A c \in Callers :
    (co[c].tool = "send_reply" /\ Len(co[c].got) >= 1 /\ Answered(c, 1, "rate"))
      => /\ co[c].pc = "done"
         /\ co[c].out.kind = "NerveRateLimitError"
         /\ co[c].out.retry_after = EffectiveRetryAfter(co[c].got[1])
         /\ co[c].sends = 1
         /\ co[c].waits = <<>>

\* send_reply was answered rate-limited with retry-after 5 on a client that
\* allows a retry to idempotent operations.
C6_Witness ==
  \E c \in Callers :
    /\ co[c].api = "send_reply" /\ max_retries = 1
    /\ Len(co[c].got) = 1 /\ Answered(c, 1, "rate") /\ co[c].got[1].ra = 5
    /\ co[c].out.retry_after = 5

FatalKind(cls) == IF cls = "quota" THEN "NerveQuotaError" ELSE "NerveSubscriptionError"

\* C7: a quota-exceeded or subscription-inactive answer, to the request of
\* the API method on any attempt or to an initialize request, ends the
\* invocation in that step: _rpc raised NerveQuotaError respectively
\* NerveSubscriptionError and the answered request was the invocation's last.
C7_FatalCodesNeverRetry ==
  \A c \in Callers :
    /\ \A i \in 1..Len(co[c].got) :
         (co[c].got[i].st = 200 /\ co[c].got[i].cls \in {"quota", "subs"})
           => /\ i = Len(co[c].got) /\ co[c].sends = i
              /\ co[c].pc = "done"
              /\ co[c].raised.kind = FatalKind(co[c].got[i].cls)
              /\ co[c].out = co[c].raised
    /\ (co[c].ilast.st = 200 /\ co[c].ilast.cls \in {"quota", "subs"})
         => /\ co[c].pc = "done"
            /\ co[c].raised.kind = FatalKind(co[c].ilast.cls)

\* With a retry to spare, an idempotent invocation was answered
\* quota-exceeded and another one subscription-inactive.
C7_Witness ==
  /\ max_retries = 1
  /\ \E c \in Callers :
       AllowRetry(co[c], "call") /\ Len(co[c].got) = 1 /\ Answered(c, 1, "quota")
         /\ co[c].out.kind = "NerveQuotaError" /\ co[c].sends = 1
  /\ \E c \in Callers :
       AllowRetry(co[c], "call") /\ Len(co[c].got) = 1 /\ Answered(c, 1, "subs")
         /\ co[c].out.kind = "NerveSubscriptionError" /\ co[c].sends = 1

\* C8: an answer with status 401 or 403, whatever its body, ends the
\* invocation in that step with NerveAuthError raised by _rpc and no further
\* request, for the request of the API method and for initialize.
C8_AuthShortCircuits ==
  \A c \in Callers :
    /\ \A i \in 1..Len(co[c].got) :
         co[c].got[i].st \in {401, 403}
           => /\ i = Len(co[c].got) /\ co[c].sends = i
              /\ co[c].pc = "done"
              /\ co[c].raised.kind = "NerveAuthError"
              /\ co[c].out = co[c].raised
    /\ co[c].ilast.st \in {401, 403}
         => /\ co[c].pc = "done"
            /\ co[c].raised.kind = "NerveAuthError"
            /\ session_lock # c

\* A 403 whose body is a success result, and a 401 whose body is a
\* rate-limited error, answered to an idempotent invocation with a retry to
\* spare.
C8_Witness ==
  /\ max_retries = 1
  /\ \E c \in Callers :
       Len(co[c].got) = 1 /\ co[c].got[1].st = 403 /\ co[c].got[1].cls = "ok"
         /\ co[c].out.kind = "NerveAuthError" /\ co[c].sends = 1
  /\ \E c \in Callers :
       AllowRetry(co[c], "call") /\ Len(co[c].got) = 1
         /\ co[c].got[1].st = 401 /\ co[c].got[1].cls = "rate"
         /\ co[c].out.kind = "NerveAuthError" /\ co[c].sends = 1

StrictlyIncreasing(q) == \A i, j \in 1..Len(q) : i < j => q[i] < q[j]
Frames == {"call", "init"}
Posts(r, f) == IF f = "call" THEN r.sends ELSE r.inits

\* C9: the ids given to logical requests are strictly increasing in the
\* order of assignment (so pairwise distinct), the id of a logical request is
\* the assignment that framed it, and a request handed to the transport
\* again (retry, replay) carries the id it was framed with.
C9_SequenceIdsUnique ==
  [][/\ StrictlyIncreasing(assigned')
     /\ \A c \in Callers : \A f \in Frames :
          Posts(co'[c], f) > Posts(co[c], f)
            => IF co'[c].fr[f].attempt = 0
               THEN /\ Len(assigned') = Len(assigned) + 1
                    /\ co'[c].fr[f].id = assigned'[Len(assigned')]
               ELSE co'[c].fr[f].id = co[c].fr[f].id]_vars

\* Two callers hold live requests, the older one is on a retry and the
\* younger one has the larger id.
C9_Witness ==
  \E c, d \in Callers :
    /\ c # d
    /\ co[c].pc = "http" /\ co[c].cur = "call" /\ co[c].fr.call.attempt = 1
    /\ co[d].pc = "http" /\ co[d].cur = "call"
    /\ co[c].fr.call.id < co[d].fr.call.id
    /\ Len(assigned) = 3

EstablishmentFailures ==
  {"TransportError", "NerveAuthError", "NerveQuotaError", "NerveSubscriptionError",
   "NerveError", "NerveRateLimitError", "NerveSessionError"}

\* C10: health_check that is over has returned True or False and raised
\* nothing; it returned False exactly when _ensure_session raised, whichever
\* of the establishment failures it was.
C10_HealthCheckNeverThrows ==
  \A c \in Callers :
    (co[c].api = "health_check" /\ co[c].pc = "done")
      => /\ co[c].out.kind = "return"
         /\ co[c].out.value \in {"True", "False"}
         /\ co[c].raised.kind \in EstablishmentFailures \cup {"none"}
         /\ (co[c].raised.kind \in EstablishmentFailures) <=> (co[c].out.value = "False")

\* health_check returned False after a missing session identifier, and after
\* a rate-limit exhaustion.
C10_Witness ==
  /\ \E c \in Callers :
       co[c].api = "health_check" /\ co[c].out.value = "False"
         /\ co[c].raised.kind = "NerveSessionError"
  /\ \E c \in Callers :
       co[c].api = "health_check" /\ co[c].out.value = "False"
         /\ co[c].raised.kind = "NerveRateLimitError"

InitInFlight(c) == co[c].pc = "http" /\ co[c].cur = "init"

\* C11: at most one initialize round trip is in flight at any moment, and
\* the caller whose initialize is in flight holds the session lock.
C11_OneEstablishmentInFlight ==
  /\ Cardinality({c \in Callers : InitInFlight(c)}) <= 1
  /\ \A c \in Callers : InitInFlight(c) => session_lock = c

\* An initialize of an expiry recovery is in flight while another caller,
\* that found no session either, is queued on the lock.
C11_Witness ==
  \E c, d \in Callers :
    /\ c # d
    /\ InitInFlight(c) /\ co[c].from = "call"
    /\ co[d].pc = "wait_lock" /\ lock_waiters = <<d>>

\* C12: a step in which a caller enters _ensure_session, or leaves the queue
\* of the lock, with a session cached sends no initialize and leaves the
\* cached session alone; a waiter leaves the lock free, any other caller
\* does not touch it; the sequence counter is advanced only by the request of the API method that follows
\* (health_check: not at all, an expiry recovery: the replay keeps its id).
C12_EnsureSessionCachedNoEffect ==
  [][\A c \in Callers :
       (/\ Truthy(session_id)
        /\ co[c].pc \in {"idle", "wait_lock"}
        /\ co'[c] # co[c])
         => /\ session_id' = session_id
            /\ co'[c].inits = co[c].inits
            /\ IF co[c].pc = "wait_lock"
               THEN session_lock' = NoCaller /\ lock_waiters' = Tail(lock_waiters)
               ELSE session_lock' = session_lock /\ lock_waiters' = lock_waiters
            /\ IF co'[c].from = "pre" /\ co'[c].api # "health_check"
               THEN /\ request_id' = request_id + 1
                    /\ co'[c].sends = 1
                    /\ co'[c].fr.call = [id |-> request_id', hdr |-> session_id,
                                         attempt |-> 0, closed |-> FALSE]
               ELSE /\ request_id' = request_id
                    /\ assigned' = assigned
            /\ (co'[c].api = "health_check") => co'[c].out = Returned("True")]_vars

\* health_check found no session, queued on the lock, found the session
\* cached once it held the lock and returned True without an initialize.
C12_Witness ==
  \E c \in Callers :
    /\ co[c].api = "health_check" /\ co[c].waited /\ co[c].pc = "done"
    /\ co[c].out = Returned("True") /\ co[c].inits = 0
    /\ Truthy(session_id) /\ session_lock = NoCaller

\* C13: one _ensure_session call that finds no session posts exactly one
\* initialize: an initialize in flight is always the first attempt of its
\* _rpc call, whatever the server answered before.
C13_OneInitializePerEnsure ==
  \A c \in Callers : InitInFlight(c) => co[c].fr.init.attempt = 0

\* The round trip of caller c's initialize completes in this step with a
\* plain success (status 200, no error object) without MCP-Session-Id.
InitAnsweredWithoutId(c) ==
  /\ InitInFlight(c)
  /\ co'[c] # co[c]
  /\ co'[c].ilast.st = 200 /\ co'[c].ilast.cls = "ok" /\ co'[c].ilast.hs = None

\* C14: an initialize answered with a success that carries no session
\* identifier makes _ensure_session raise NerveSessionError, with no session
\* cached and the lock released, so that the next _ensure_session call
\* initializes afresh.
C14_EstablishmentFailure ==
  [][\A c \in Callers :
       InitAnsweredWithoutId(c)
         => /\ co'[c].pc = "done"
            /\ co'[c].raised.kind = "NerveSessionError"
            /\ ~Truthy(session_id')
            /\ session_lock' = NoCaller]_vars

\* C15: when the request sent after a session-expired answer (the replay of
\* the recovery) is answered with anything but a success, the invocation is
\* over with an exception: no recovery, no retry and no request follow.
C15_SingleRecoveryPerCall ==
  \A c \in Callers :
    \A i \in 1..(Len(co[c].got) - 1) :
      (Answered(c, i, "expired") /\ ~Answered(c, i + 1, "ok"))
        => /\ co[c].pc = "done"
           /\ co[c].raised.kind # "none"
           /\ Len(co[c].got) = i + 1

\* C16: an invocation that is over and whose initialize round trips all
\* succeeded has sent a request after every session-expired answer it was
\* given (the replay), and it gave up on a rate-limited answer only after
\* max_retries backoff waits, recoveries or not.
C16_ReplayOutsideRetryBudget ==
  \A c \in Callers :
    (co[c].pc = "done" /\ co[c].ifault = 0)
      => /\ \A i \in 1..Len(co[c].got) :
              Answered(c, i, "expired") => co[c].sends > i
         /\ (co[c].raised.kind = "NerveRateLimitError" /\ AllowRetry(co[c], "call"))
              => Len(co[c].waits) = max_retries

Idempotent(c) ==
  co[c].api \notin {"none", "health_check"} /\ AllowRetry(co[c], "call")

\* The backoff waits that the first n answers, all rate-limited, call for.
WaitsFor(c, n) == [i \in 1..n |-> EffectiveRetryAfter(co[c].got[i])]

C19_CloseDestroysSession ==
  [][closes' # closes => session_id' = None]_vars

\* C20: close() never raises; on a client whose transport is open it closes
\* that transport, and on a client without transport or with a closed one
\* it changes nothing; the session, the lock and the sequence counter are
\* never touched.
C20_CloseIdempotent ==
  [][closes' # closes
       => /\ closes' = Append(closes, "returned")
          /\ http' = IF http = "open" THEN "closed" ELSE http
          /\ (http # "open") => co' = co
          /\ \A c \in Callers : co'[c] = MarkClosed(co[c]) \/ co'[c] = co[c]
          /\ UNCHANGED <<session_id, session_lock, lock_waiters, request_id,
                         max_retries, assigned>>]_vars

\* close() was called twice on a client that had sent requests: both calls
\* returned and the transport is closed.
C20_Witness ==
  /\ closes = <<"returned", "returned">>
  /\ http = "closed"
  /\ request_id > 0
  /\ \E c \in Callers : co[c].pc = "done" /\ co[c].sends > 0

\* The message contains the word "session", upper and lower case letters
\* taken as equal.
SameLetter(x, y) ==
  x = y \/ (x \in DOMAIN UpperToLower /\ UpperToLower[x] = y)
MentionsSession(m) ==
  \E i \in 1..(Len(m) - 6) : \A j \in 1..7 : SameLetter(m[i + j - 1], Needle[j])

\* The class that the taxonomy gives to an error object.
ExpectedClass(a) ==
  CASE a.code = 0 - 32042 -> "rate-limited"
    [] a.code = 0 - 32040 -> "quota-exceeded"
    [] a.code = 0 - 32041 -> "subscription-inactive"
    [] a.code = 0 - 32000 /\ MentionsSession(a.msg) -> "session-expired"
    [] OTHER -> "generic-remote-failure"

OutcomeClasses ==
  {"rate-limited", "quota-exceeded", "subscription-inactive", "session-expired",
   "generic-remote-failure"}

\* What caller c does in this step with the response resp', read off its
\* coroutine: the backoff or the exception of the class, or the recovery.
Outcome(c, k) ==
  CASE k = "rate-limited" ->
         \/ /\ co'[c].pc = "sleep" /\ co'[c].cur = co[c].cur
            /\ co'[c].raised.kind = "none"
         \/ /\ co'[c].raised.kind = "NerveRateLimitError"
            /\ co'[c].raised.msg = resp'.msg
    [] k = "quota-exceeded" ->
         co'[c].raised.kind = "NerveQuotaError" /\ co'[c].raised.msg = resp'.msg
    [] k = "subscription-inactive" ->
         co'[c].raised.kind = "NerveSubscriptionError" /\ co'[c].raised.msg = resp'.msg
    [] k = "session-expired" ->
         /\ co'[c].raised.kind = "none"
         /\ co'[c].from = co[c].cur
         /\ session_id' = None
         /\ InitInFlight(c)' \/ co'[c].pc = "wait_lock"
    [] OTHER ->
         /\ co'[c].raised.kind = "NerveError"
         /\ co'[c].raised.code = resp'.code /\ co'[c].raised.msg = resp'.msg

\* C17: a response with an error object (status not 401 or 403) is given
\* exactly one class, the one the taxonomy names for its code and for
\* whether its message mentions "session" in any case; status, header,
\* retry-after, operation and attempt play no part; a generic failure
\* carries the code and the message of the server.
C17_ClassificationTotalPure ==
  [][\A c \in Callers :
       (co[c].pc = "http" /\ resp' # resp)
         => /\ Outcome(c, ExpectedClass(resp'))
            /\ Cardinality({k \in OutcomeClasses : Outcome(c, k)}) = 1]_vars

\* Code -32000 with an upper-case "SESSION" and status 500 was taken as
\* session-expired: the caller's re-initialize is in flight.
C17_Witness ==
  /\ resp.code = SESSION_CODE /\ resp.msg = MsgUpperSession /\ resp.status = 500
  /\ InitInFlight(1) /\ co[1].from = "call" /\ co[1].inits = 2
  /\ session_id = None

\* The API methods that hand the result of _rpc to their caller as it is.
PassesResult(c) == IsToolCall(c) \/ co[c].api = "list_inboxes"

Exhausted(c, f) ==
  co[c].fr[f].attempt >= MaxAttempts(AllowRetry(co[c], f))

RetryExhaustion == Exc("NerveError", DefaultCode, MsgMaxRetries, 0)

\* C22: an invocation whose loop of attempts has run out is over, it has
\* raised NerveError("Max retries exceeded") to its caller, it has returned
\* no value and it has sent no more requests than it was permitted; and
\* that exception is raised in no other case.
C22_ExhaustionRaisesGeneric ==
  \A c \in Callers :
    /\ ~Exhausted(c, "init")
    /\ Exhausted(c, "call")
         => /\ co[c].pc = "done"
            /\ co[c].raised = RetryExhaustion
            /\ co[c].out = RetryExhaustion
            /\ co[c].sends <= MaxAttempts(AllowRetry(co[c], "call"))
    /\ (co[c].raised = RetryExhaustion) => Exhausted(c, "call")

\* An idempotent operation with max_retries = 1 was answered rate-limited,
\* retried, was answered session-expired, re-initialized and then ran out
\* of attempts.
C22_Witness ==
  \E c \in Callers :
    /\ max_retries = 1 /\ Idempotent(c) /\ co[c].pc = "done"
    /\ Len(co[c].got) = 2 /\ Answered(c, 1, "rate") /\ Answered(c, 2, "expired")
    /\ co[c].sends = 2
    /\ co[c].out = RetryExhaustion

\* The identifiers the server has issued: the one of an initialize request
\* of some caller (see Issued).
IssuedIds == {co[d].fr.init.id : d \in Callers} \ {0}

\* C23: in the step in which health_check returns True a session identifier
\* is cached, and it is one that the server issued for an initialize request
\* of this client.
C23_HealthCheckTrueMeansSession ==
  [][\A c \in Callers :
       (co'[c].api = "health_check" /\ co[c].pc # "done"
        /\ co'[c].out = Returned("True"))
         => /\ Truthy(session_id')
            /\ session_id' \in IssuedIds']_vars

\* health_check established the session itself and returned True; the
\* cached identifier is the one its initialize was answered with.
C23_Witness ==
  \E c \in Callers :
    /\ co[c].api = "health_check" /\ co[c].out = Returned("True")
    /\ co[c].inits = 1 /\ co[c].ilast.hs = Fresh
    /\ session_id = co[c].fr.init.id

\* A round trip of caller c ended with a failure of the transport.
TransportFailed(c) ==
  \/ co[c].ilast.cls = "neterr"
  \/ \E i \in 1..Len(co[c].got) : co[c].got[i].cls = "neterr"

\* C24: a caller one of whose round trips failed in the transport (its
\* request or its initialize, on a first attempt or on a retry) is over with
\* the exception of the transport, the failed round trip was its last one,
\* and it does not hold the session lock.
C24_TransportFailureEndsInvocation ==
  \A c \in Callers :
    TransportFailed(c)
      => /\ co[c].pc = "done"
         /\ co[c].raised.kind = "TransportError"
         /\ co[c].out = IF co[c].api = "health_check"
                        THEN Returned("False") ELSE co[c].raised
         /\ \A i \in 1..(Len(co[c].got) - 1) : co[c].got[i].cls # "neterr"
         /\ co[c].sends = Len(co[c].got)
         /\ session_lock # c

\* The retry of a rate-limited initialize failed in the transport: the
\* caller is over after two initialize posts, and the lock is free for the
\* caller that queued on it.
C24_Witness ==
  \E c, d \in Callers :
    /\ c # d
    /\ co[c].pc = "done" /\ co[c].raised.kind = "TransportError"
    /\ Len(co[c].iwaits) = 1 /\ co[c].ilast.cls = "neterr" /\ co[c].inits = 2
    /\ co[c].sends = 0
    /\ session_lock = NoCaller /\ lock_waiters = <<d>>

\* The operation of NerveAdmin is over and its request was answered.
AdminAnswered == admin.pc = "done" /\ admin.status # 0

ParsesAsJson(text) == text \in {"{\"id\": 1}", "[]", "null"}

\* C25 (as claimed): every operation of NerveAdmin sends one request; status
\* 401 or 403 raises NerveAuthError, another status >= 400 raises NerveError
\* with the status as its code, and any other status returns the parsed
\* body.
C25_AdminReturnsParsedBody ==
  /\ admin.sent <= 1
  /\ AdminAnswered
       => /\ admin.sent = 1
          /\ (admin.status \in {401, 403}) => admin.out.kind = "NerveAuthError"
          /\ (admin.status >= 400 /\ admin.status \notin {401, 403})
               => admin.out.kind = "NerveError" /\ admin.out.code = admin.status
          /\ (admin.status < 400 /\ ParsesAsJson(admin.body))
               => admin.out = Returned(JsonOf(admin.body))

\* C25 (amended): as above, but delete_domain returns None whatever the
\* body says, and a body that is not JSON makes resp.json() raise.
C25_AdminStatusMapping ==
  /\ admin.sent <= 1
  /\ (admin.pc # "idle") => admin.sent = 1
  /\ AdminAnswered
       => /\ (admin.status \in {401, 403}) => admin.out.kind = "NerveAuthError"
          /\ (admin.status >= 400 /\ admin.status \notin {401, 403})
               => /\ admin.out.kind = "NerveError"
                  /\ admin.out.code = admin.status
                  /\ admin.out.msg = <<admin.body>>
          /\ (admin.status < 400 /\ ParsesAsJson(admin.body))
               => admin.out = IF admin.op = "delete_domain"
                              THEN Returned(NoValue)
                              ELSE Returned(JsonOf(admin.body))
          /\ (admin.status < 400 /\ ~ParsesAsJson(admin.body))
               => admin.out.kind = "JSONDecodeError"

\* delete_domain was answered 200 with a JSON object and returned None
\* after one request.
C25_Witness ==
  /\ AdminAnswered /\ admin.op = "delete_domain" /\ admin.status = 200
  /\ JsonOf(admin.body) = "dict"
  /\ admin.sent = 1 /\ admin.out = Returned(NoValue)

SupportedFormats == {"claude", "anthropic", "openai", "raw"}

\* The name and the schema of an entry in the layout of its format.
EntryName(format, e) == IF format = "openai" THEN e.function.name ELSE e.name
EntrySchema(format, e) ==
  CASE format = "openai" -> e.function.parameters
    [] format = "raw" -> e.parameters
    [] OTHER -> e.input_schema

C27_SessionAttachedAtSendTime ==
  [][\A c \in Callers :
       (co'[c].sends = co[c].sends + 1)
         => co'[c].fr.call.hdr = IF Truthy(session_id') THEN session_id' ELSE None]_vars

\* The step in which caller c is answered session-expired: line 175 of _rpc
\* runs in it.
DetectsExpiry(c) ==
  /\ Len(co'[c].got) = Len(co[c].got) + 1
  /\ co'[c].got[Len(co'[c].got)].cls = "expired"

\* C28: a caller that clears the cached session upon a session-expired answer
\* holds, when it clears it, the lock that guards establishment; nobody
\* clears the session holding nothing or while another caller holds the lock.
C28_InvalidationUnderEstablishmentLock ==
  [][\A c \in Callers : DetectsExpiry(c) => session_lock = c]_vars

\* Caller c hands its frame f to the transport in this step.
Hands(c, f) ==
  IF f = "call" THEN co'[c].sends = co[c].sends + 1
  ELSE co'[c].inits = co[c].inits + 1

\* C29: a request handed to the transport carries no smaller id than any
\* request handed over before it; here, than the requests that the other
\* callers have handed over and still hold.
C29_TransportSeesIdsInOrder ==
  [][\A c \in Callers : \A f \in {"call", "init"} :
       Hands(c, f)
         => \A d \in Callers \ {c} : \A g \in {"call", "init"} :
              (Posts(co[d], g) > 0 /\ co'[d].fr[g] = co[d].fr[g])
                => co[d].fr[g].id <= co'[c].fr[f].id]_vars

\* C30: every request other than initialize (tools/call, tools/list,
\* resources/read) that a caller hands to the transport, be it the first
\* send, a retry or a replay, carries a session identifier that is neither
\* None nor empty.
C30_SessionBeforeFraming ==
  [][\A c \in Callers : Hands(c, "call") => Truthy(co'[c].fr.call.hdr)]_vars

\* The replay of a request answered session-expired is in flight under the
\* session of the re-establishment, while another caller has sent a request
\* too.
C30_Witness ==
  \E c, d \in Callers :
    /\ c # d
    /\ co[c].pc = "http" /\ co[c].cur = "call" /\ co[c].sends = 2
    /\ Answered(c, 1, "expired")
    /\ Truthy(co[c].fr.call.hdr) /\ co[c].fr.call.hdr # co[c].hdr0
    /\ co[d].sends > 0

\* Caller c replays in this step the request that was answered
\* session-expired (line 178 after lines 175-177).
Replays(c) ==
  /\ Hands(c, "call")
  /\ co[c].got # <<>> /\ co[c].got[Len(co[c].got)].cls = "expired"

\* The initialize that opened session sid was answered with a success that
\* issued it.
EstablishedBy(sid) ==
  \E d \in Callers :
    /\ co'[d].fr.init.id = sid
    /\ co'[d].ilast.cls = "ok" /\ co'[d].ilast.st = 200 /\ co'[d].ilast.hs = Fresh

\* C31: the replay after a session-expired answer is the same request (same
\* id, same operation) and carries an identifier that is not absent, that an
\* initialize answered with success has issued, and that was cached after
\* this caller forgot the expired one.
C31_ReplayCarriesFreshSession ==
  [][\A c \in Callers :
       /\ DetectsExpiry(c) => ~Truthy(session_id')
       /\ Replays(c)
            => /\ co'[c].fr.call.id = co[c].fr.call.id
               /\ co'[c].api = co[c].api /\ co'[c].tool = co[c].tool
               /\ Truthy(co'[c].fr.call.hdr)
               /\ co'[c].fr.call.hdr = session_id'
               /\ EstablishedBy(co'[c].fr.call.hdr)]_vars

\* C32: when every round trip returns and every sleep ends, every invocation
\* that has started (tool call, list, read or health_check, each beginning
\* with _ensure_session) is over at some time, and the session lock, once
\* held, is free again at some time.
C32_NoCallerWaitsForever ==
  /\ \A c \in Callers : (co[c].pc # "idle") ~> (co[c].pc = "done")
  /\ (session_lock # NoCaller) ~> (session_lock = NoCaller)

\* C33: an invocation of an idempotent operation hands at most
\* max_retries + 1 requests of its operation to the transport, first send,
\* retries after a rate limit and replays after a recovery counted together.
C33_BoundedCostPerCall ==
  \A c \in Callers : Idempotent(c) => co[c].sends <= max_retries + 1

\* An invocation is over that used its whole budget on a replay after a
\* session-expired answer and was then answered rate-limited.
C33_Witness ==
  \E c \in Callers :
    /\ Idempotent(c) /\ co[c].pc = "done" /\ max_retries = 1
    /\ co[c].sends = max_retries + 1
    /\ Len(co[c].got) = 2
    /\ Answered(c, 1, "expired") /\ Answered(c, 2, "rate")

\* In this step an exception leaves the _ensure_session call of caller c:
\* its initialize was in flight and its invocation is over with an exception.
EnsureSessionRaises(c) ==
  /\ InitInFlight(c)
  /\ co'[c].pc = "done"
  /\ co'[c].raised.kind # "none"

\* C34: when _ensure_session raises, whatever the failure of the initialize
\* and whatever header its answer carried, no session identifier is cached
\* afterwards.
C34_NoSessionAfterFailedEnsure ==
  [][\A c \in Callers : EnsureSessionRaises(c) => ~Truthy(session_id')]_vars

\* The answer that caller c receives in this step, as far as the history
\* keeps it: to its initialize, or to the request of its operation.
InitAnswered(c) == InitInFlight(c) /\ co'[c] # co[c]
CallAnswered(c) == Len(co'[c].got) = Len(co[c].got) + 1
FailureClasses == {"rate", "quota", "subs", "generic"}
IsFailure(o) == o.st \in {401, 403} \/ (o.st = 200 /\ o.cls \in FailureClasses)
FailureAnswered(c) ==
  \/ InitAnswered(c) /\ IsFailure(co'[c].ilast)
  \/ CallAnswered(c) /\ IsFailure(co'[c].got[Len(co'[c].got)])

SetOnlyByInitialize ==
  (session_id' # session_id /\ session_id' # None)
    => (\E c \in Callers : InitAnswered(c) /\ co'[c].ilast.hs # None)

ClearedOnlyByExpiry ==
  (session_id' # session_id /\ session_id' = None)
    => (\E c \in Callers :
          \/ DetectsExpiry(c)
          \/ InitAnswered(c) /\ co'[c].ilast.cls = "expired")

FailuresLeaveSession ==
  \A c \in Callers :
    FailureAnswered(c) => session_id' = session_id /\ request_id' = request_id

\* C35: the cached session identifier is set only in a step in which an
\* initialize is answered, and cleared only in a step in which an answer is
\* classified session-expired; an answer that is an auth, rate-limited,
\* quota, subscription or generic failure leaves the identifier and the
\* request counter as they are.
C35_SessionFrame ==
  [][SetOnlyByInitialize /\ ClearedOnlyByExpiry /\ FailuresLeaveSession]_vars

\* The initialize that caller c sent inside a recovery (lines 175-176) is
\* answered in this step.
RecoveryInitAnswered(c) == InitAnswered(c) /\ co[c].from = "call"

\* The exception that _rpc and _ensure_session make of an initialize answer
\* that ends the establishment without a session.
FailureKind(o) ==
  IF o.cls = "neterr" THEN "TransportError"
  ELSE IF o.st \in {401, 403} THEN "NerveAuthError"
  ELSE IF o.cls = "rate" THEN "NerveRateLimitError"
  ELSE IF o.cls = "quota" THEN "NerveQuotaError"
  ELSE IF o.cls = "subs" THEN "NerveSubscriptionError"
  ELSE IF o.cls = "generic" THEN "NerveError"
  ELSE "NerveSessionError"

\* The answer ends the establishment in failure: a transport, auth or remote
\* error (a rate-limited answer when no attempt is left), or a success that
\* issues no identifier.
EstablishmentFails(c) ==
  LET o == co'[c].ilast
  IN \/ o.cls = "neterr"
     \/ o.st \in {401, 403}
     \/ o.st = 200 /\ o.cls \in {"quota", "subs", "generic"}
     \/ o.st = 200 /\ o.cls = "rate" /\ co[c].fr.init.attempt >= max_retries
     \/ o.st = 200 /\ o.cls = "ok" /\ o.hs \in {None, EmptySid}

\* C36: when the initialize of a recovery ends the establishment in failure,
\* the invocation is over with the exception of that failure and its request
\* is not sent again.
C36_FailedRecoveryRaises ==
  [][\A c \in Callers :
       (RecoveryInitAnswered(c) /\ EstablishmentFails(c))
         => /\ co'[c].pc = "done"
            /\ co'[c].raised.kind = FailureKind(co'[c].ilast)
            /\ co'[c].sends = co[c].sends]_vars
====
